---- MODULE Spec2Model ----
(***************************************************************************)
(* A model of the Chatbox client: the conversation view (ChatWindow), the  *)
(* user directory (UserList) and the authentication provider               *)
(* (AuthProvider), together with the part of the Supabase schema they      *)
(* rely on (conversations, messages, profiles).                            *)
(*                                                                         *)
(* Every awaited backend call is a suspension point: the handler is cut    *)
(* into one action per resumption, and other handlers may run in between.  *)
(***************************************************************************)
EXTENDS Integers, Sequences, FiniteSets, Bags, TLC

\* ------------------------------------------------------------------ bounds

\* Messages the backend accepts before the model stops issuing writes.
MaxMsgs == 2

\* Calls of signIn, signUp and signOut the model follows.
MaxOps == 2
\* Session-change notifications the backend emits on its own (token refresh,
\* a login or logout elsewhere).
MaxEvents == 1
\* Times React tears the provider's effect down and runs it again.
MaxRemounts == 1

\* ------------------------------------------------------------ value spaces

\* useRef<string | null>(null): the absent id.
Null == 0

\* Profile row ids (uuid); the integer order stands for the uuid order the
\* normalisation trigger compares by.
ProfileIds == {1, 2, 3}

\* Identities issued by the auth subsystem (auth.users.id).
Identities == {11, 12}

\* The e-mail address of an identity, as characters.
Email(u) == IF u = 11 THEN <<"a", "@", "x">> ELSE <<"b", "@", "x">>

\* The username each identity asked for when it signed up.
Username(u) == IF u = 11 THEN <<"a", "l">> ELSE <<"z">>

\* profiles.id of the row provisioned for an identity (gen_random_uuid():
\* never the identity's own id).
RowId(u) == u - 10

\* The two parties of the conversation the messaging runs are about.
ChatPair == {1, 2}

\* ChatWindow instances (one per mount; ChatPage keys them by the other user).
Views == {"v1", "v2", "v3"}

\* The instances that exchange messages in the messaging runs.
ChatViews == {"v1", "v2"}

\* What a user types: nothing, only blanks, a word, a word between blanks.
Texts == {<<>>, <<" ">>, <<"a">>, <<" ", "a", " ">>}

\* ------------------------------------------------------- pure functions

\* String.prototype.trim: strip leading and trailing white space.
RECURSIVE TrimLeft(_)
TrimLeft(s) ==
  IF s = <<>> THEN <<>>
  ELSE IF Head(s) = " " THEN TrimLeft(Tail(s)) ELSE s

RECURSIVE TrimRight(_)
TrimRight(s) ==
  IF s = <<>> THEN <<>>
  ELSE IF s[Len(s)] = " " THEN TrimRight(SubSeq(s, 1, Len(s) - 1)) ELSE s

TrimNone(s) == s

Trim(s) == TrimRight(TrimLeft(s))

\* Array.prototype.some(m => m.id === id)
HasId(msgs, id) == \E i \in 1..Len(msgs) : msgs[i].id = id

\* Array.prototype.filter(m => m.id !== id)
RECURSIVE WithoutId(_, _)
WithoutId(msgs, id) ==
  IF msgs = <<>> THEN <<>>
  ELSE IF Head(msgs).id = id THEN WithoutId(Tail(msgs), id)
       ELSE <<Head(msgs)>> \o WithoutId(Tail(msgs), id)

\* Number of entries of msgs with the given id.
CountId(msgs, id) == Cardinality({i \in 1..Len(msgs) : msgs[i].id = id})

\* ------------------------------------------------------------------ state

VARIABLES
  conversations,   \* backend table conversations: set of rows
  nextConvId,      \* gen_random_uuid() for conversations: next fresh id
  messagesTbl,     \* backend table messages, in commit order
  cw,              \* per ChatWindow instance: its React state and refs
  inbox,           \* per ChatWindow instance: pushed inserts not yet handled
  sentLog,         \* history: per view, sends whose response was applied
  echoed           \* history: per view, server ids whose push was handled

chatVars == <<conversations, nextConvId, messagesTbl, cw, inbox, sentLog, echoed>>

VARIABLES
  session,         \* backend: the identity of the current session, or Null
  accounts,        \* backend: auth.users, as identities
  profilesTbl,     \* backend table profiles: identity -> its row
  user,            \* AuthProvider state
  profile,         \* AuthProvider state
  loading,         \* AuthProvider state
  profileCache,    \* AuthProvider ref: identity -> Profile
  sessionChecked,  \* AuthProvider ref
  effectActive,    \* the bootstrap effect is set up (its cleanup is pending)
  runs,            \* runs of the bootstrap effect so far
  timers,          \* runs whose safety timeout is pending
  listeners,       \* runs whose onAuthStateChange subscription is active
  tasks,           \* awaited backend calls: a bag of Task records
  authEvents,      \* session-change notifications not yet delivered
  opCount,         \* calls of signIn/signUp/signOut so far
  envEvents,       \* notifications the backend emitted on its own so far
  epoch,           \* history: successful sign-outs so far
  pubEpoch,        \* history: epoch in which the writer of user/profile started
  cacheEpoch,      \* history: identity -> epoch in which its fetch started
  cachedAtSignOut, \* history: identities cached when signOut last cleared
  callErrors       \* history: auth calls the backend failed, and those that threw

authVars == <<session, accounts, profilesTbl, user, profile, loading,
              profileCache, sessionChecked, effectActive, runs, timers,
              listeners, tasks, authEvents, opCount, envEvents, epoch,
              pubEpoch, cacheEpoch, cachedAtSignOut, callErrors>>

VARIABLES
  users,           \* UserList state: the rows shown
  dirLoading,      \* UserList state: loading
  allUsersCache,   \* UserList ref
  hasFetched,      \* UserList ref
  search,          \* UserList state: the search text
  debouncePending, \* UserList: the debounce timeout is pending
  dirFetch         \* the awaited directory query of fetchUsers

dirVars == <<users, dirLoading, allUsersCache, hasFetched, search,
             debouncePending, dirFetch>>

vars == <<chatVars, authVars, dirVars>>

\* ------------------------------------------------------ backend (schema)

\* CONSTRAINT unique_conversation_pair UNIQUE (user1_id, user2_id)
UniqueNoCheck(rows, row) == FALSE

UniqueViolation(rows, row) ==
  \E r \in rows : r.user1_id = row.user1_id /\ r.user2_id = row.user2_id

\* BEFORE INSERT trigger normalize_conversation_users
NormalizeNoSwap(row) == row

normalize_conversation_users(row) ==
  IF row.user1_id > row.user2_id
  THEN [row EXCEPT !.user1_id = row.user2_id, !.user2_id = row.user1_id]
  ELSE row

\* .or(and(user1_id.eq.a,user2_id.eq.b),and(user1_id.eq.b,user2_id.eq.a))
FindConversation(rows, a, b) ==
  {r \in rows : \/ (r.user1_id = a /\ r.user2_id = b)
                \/ (r.user1_id = b /\ r.user2_id = a)}

\* Rows of one conversation in created_at order, capped by .limit(100).
PageLimit == 100

OfConversation(tbl, convId) ==
  SelectSeq(tbl, LAMBDA m : m.conversation_id = convId)

ListMessages(tbl, convId) ==
  LET all == OfConversation(tbl, convId)
  IN  IF Len(all) > PageLimit THEN SubSeq(all, 1, PageLimit) ELSE all

\* ---------------------------------------------------------------- ChatWindow

NoSend == [state |-> "none", tempId |-> <<"temp", 0>>, content |-> <<>>,
           typed |-> <<>>, data |-> Null]

InitView ==
  [ mounted           |-> FALSE,
    pc                |-> "new",      \* position of initChat
    profileId         |-> Null,       \* profile.id of the acting user
    otherUserId       |-> Null,       \* otherUser.id
    conversationIdRef |-> Null,
    channelRef        |-> Null,       \* open channel: its conversation id
    hasInitialized    |-> FALSE,
    initError         |-> "none",     \* what initChat's catch logged
    page              |-> <<>>,       \* awaited result of the page query
    messages          |-> <<>>,
    newMessage        |-> <<>>,
    loading           |-> TRUE,
    sending           |-> FALSE,
    clock             |-> 0,          \* Date.now() of this client
    send              |-> NoSend ]    \* the awaited insert of handleSend

\* A state setter of a component: React drops updates of an unmounted one.
SetState(v, new, old) == IF cw[v].mounted THEN new ELSE old

ChatInit ==
  /\ \E pre \in {{}, {[id |-> 1, user1_id |-> 1, user2_id |-> 2]}} :
        /\ conversations = pre
        /\ nextConvId = Cardinality(pre) + 1
  /\ messagesTbl = <<>>
  /\ cw = [v \in Views |-> InitView]
  /\ inbox = [v \in Views |-> <<>>]
  /\ sentLog = [v \in Views |-> {}]
  /\ echoed = [v \in Views |-> {}]

\* ChatPage renders <ChatWindow key=... otherUser=...>; the init effect runs,
\* sets hasInitialized and calls initChat, which awaits the lookup.
Mount(v, a, b) ==
  /\ cw[v].pc = "new"
  /\ a # b
  /\ cw' = [cw EXCEPT ![v].mounted = TRUE, ![v].pc = "lookup",
                      ![v].profileId = a, ![v].otherUserId = b,
                      ![v].hasInitialized = TRUE]
  /\ UNCHANGED <<conversations, nextConvId, messagesTbl, inbox, sentLog, echoed>>
  /\ UNCHANGED authVars
  /\ UNCHANGED dirVars

\* The lookup answers: an existing conversation is taken, otherwise the
\* insert is issued.
LookupDone(v) ==
  /\ cw[v].pc = "lookup"
  /\ LET convs == FindConversation(conversations, cw[v].profileId, cw[v].otherUserId)
     IN  IF convs # {}
         THEN \E c \in convs :
                cw' = [cw EXCEPT ![v].conversationIdRef = c.id, ![v].pc = "load"]
         ELSE cw' = [cw EXCEPT ![v].pc = "create"]
  /\ UNCHANGED <<conversations, nextConvId, messagesTbl, inbox, sentLog, echoed>>
  /\ UNCHANGED authVars
  /\ UNCHANGED dirVars

\* The insert answers: the row is stored, or the unique constraint rejects
\* it and initChat's catch logs the error and clears loading.
CreateDone(v) ==
  /\ cw[v].pc = "create"
  /\ LET row == normalize_conversation_users(
                  [id |-> nextConvId, user1_id |-> cw[v].profileId,
                   user2_id |-> cw[v].otherUserId])
     IN  IF UniqueViolation(conversations, row)
         THEN /\ cw' = [cw EXCEPT ![v].pc = "failed",
                                  ![v].initError = "conflict",
                                  ![v].loading = SetState(v, FALSE, @)]
              /\ UNCHANGED <<conversations, nextConvId>>
         ELSE /\ conversations' = conversations \cup {row}
              /\ nextConvId' = nextConvId + 1
              /\ cw' = [cw EXCEPT ![v].conversationIdRef = row.id, ![v].pc = "load"]
  /\ UNCHANGED <<messagesTbl, inbox, sentLog, echoed>>
  /\ UNCHANGED authVars
  /\ UNCHANGED dirVars

\* The backend evaluates the page query.
LoadExec(v) ==
  /\ cw[v].pc = "load"
  /\ cw' = [cw EXCEPT ![v].page = ListMessages(messagesTbl, cw[v].conversationIdRef),
                      ![v].pc = "loaded"]
  /\ UNCHANGED <<conversations, nextConvId, messagesTbl, inbox, sentLog, echoed>>
  /\ UNCHANGED authVars
  /\ UNCHANGED dirVars

\* The page arrives: setMessages, open the channel, setLoading(false).
LoadResume(v) ==
  /\ cw[v].pc = "loaded"
  /\ cw' = [cw EXCEPT ![v].messages = SetState(v, cw[v].page, @),
                      ![v].page = <<>>,
                      ![v].channelRef = cw[v].conversationIdRef,
                      ![v].loading = SetState(v, FALSE, @),
                      ![v].pc = "ready"]
  /\ UNCHANGED <<conversations, nextConvId, messagesTbl, inbox, sentLog, echoed>>
  /\ UNCHANGED authVars
  /\ UNCHANGED dirVars

\* The effect's cleanup, run when ChatPage drops or swaps the view.
Unmount(v) ==
  /\ cw[v].mounted
  /\ cw' = [cw EXCEPT ![v].mounted = FALSE,
                      ![v].channelRef = Null,
                      ![v].hasInitialized = FALSE]
  /\ inbox' = [inbox EXCEPT ![v] = IF cw[v].channelRef # Null THEN <<>> ELSE @]
  /\ UNCHANGED <<conversations, nextConvId, messagesTbl, sentLog, echoed>>
  /\ UNCHANGED authVars
  /\ UNCHANGED dirVars

\* onChange of the input (rendered once loading is false, disabled while
\* sending): setNewMessage(e.target.value).
TypeInput(v, t) ==
  /\ cw[v].mounted /\ ~cw[v].loading /\ ~cw[v].sending
  /\ t # cw[v].newMessage
  /\ cw' = [cw EXCEPT ![v].newMessage = t]
  /\ UNCHANGED <<conversations, nextConvId, messagesTbl, inbox, sentLog, echoed>>
  /\ UNCHANGED authVars
  /\ UNCHANGED dirVars

\* Submits issued so far by all views (each reads Date.now() once).
RECURSIVE SumClock(_)
SumClock(S) ==
  IF S = {} THEN 0
  ELSE LET v == CHOOSE x \in S : TRUE IN cw[v].clock + SumClock(S \ {v})

\* The time both new Date() of a client and now() of the backend read: the
\* clocks are taken to agree, and every submit and every commit takes time.
Now == SumClock(Views) + Len(messagesTbl)

\* handleSend up to its await: the guard, the placeholder, the cleared input,
\* the sending flag and the issued insert.
SubmitUnguarded(v) ==
  /\ cw[v].mounted /\ ~cw[v].loading
  /\ SumClock(Views) < MaxMsgs
  /\ LET content == Trim(cw[v].newMessage)
     IN  IF content = <<>> \/ cw[v].conversationIdRef = Null
            \/ cw[v].profileId = Null
         THEN UNCHANGED cw
         ELSE LET tempMsg == [id |-> <<"temp", cw[v].clock + 1>>,
                              conversation_id |-> cw[v].conversationIdRef,
                              sender_id |-> cw[v].profileId,
                              content |-> content,
                              created_at |-> Now + 1]
              IN  cw' = [cw EXCEPT
                      ![v].messages = Append(@, tempMsg),
                      ![v].sending = TRUE,
                      ![v].clock = @ + 1,
                      ![v].send = [state |-> "issued", tempId |-> tempMsg.id,
                                   content |-> content,
                                   typed |-> cw[v].newMessage, data |-> Null]]
  /\ UNCHANGED <<conversations, nextConvId, messagesTbl, inbox, sentLog, echoed>>
  /\ UNCHANGED authVars
  /\ UNCHANGED dirVars

Submit(v) ==
  /\ cw[v].mounted /\ ~cw[v].loading
  /\ SumClock(Views) < MaxMsgs
  /\ LET content == Trim(cw[v].newMessage)
     IN  IF content = <<>> \/ cw[v].conversationIdRef = Null
            \/ cw[v].profileId = Null \/ cw[v].sending
         THEN UNCHANGED cw
         ELSE LET tempMsg == [id |-> <<"temp", cw[v].clock + 1>>,
                              conversation_id |-> cw[v].conversationIdRef,
                              sender_id |-> cw[v].profileId,
                              content |-> content,
                              created_at |-> Now + 1]
              IN  cw' = [cw EXCEPT
                      ![v].messages = Append(@, tempMsg),
                      ![v].newMessage = <<>>,
                      ![v].sending = TRUE,
                      ![v].clock = @ + 1,
                      ![v].send = [state |-> "issued", tempId |-> tempMsg.id,
                                   content |-> content,
                                   typed |-> cw[v].newMessage, data |-> Null]]
  /\ UNCHANGED <<conversations, nextConvId, messagesTbl, inbox, sentLog, echoed>>
  /\ UNCHANGED authVars
  /\ UNCHANGED dirVars

\* The backend commits the insert: the row gets its id, and the change is
\* published to every channel open on that conversation.
ServerInsert(v) ==
  /\ cw[v].send.state = "issued"
  /\ LET row == [id |-> <<"srv", Len(messagesTbl) + 1>>,
                 conversation_id |-> cw[v].conversationIdRef,
                 sender_id |-> cw[v].profileId,
                 content |-> cw[v].send.content,
                 created_at |-> Now + 1]
     IN  /\ messagesTbl' = Append(messagesTbl, row)
         /\ inbox' = [w \in Views |->
                        IF cw[w].channelRef = row.conversation_id
                        THEN Append(inbox[w], row) ELSE inbox[w]]
         /\ cw' = [cw EXCEPT ![v].send.state = "committed", ![v].send.data = row]
  /\ UNCHANGED <<conversations, nextConvId, sentLog, echoed>>
  /\ UNCHANGED authVars
  /\ UNCHANGED dirVars

\* The backend (or the network) rejects the insert.
ServerReject(v) ==
  /\ cw[v].send.state = "issued"
  /\ cw' = [cw EXCEPT ![v].send.state = "error"]
  /\ UNCHANGED <<conversations, nextConvId, messagesTbl, inbox, sentLog, echoed>>
  /\ UNCHANGED authVars
  /\ UNCHANGED dirVars

\* setMessages(prev => prev.map(m => m.id === tempMsg.id ? data : m))
ReplaceNone(msgs, tempId, data) == msgs

ReplaceTemp(msgs, tempId, data) ==
  [i \in 1..Len(msgs) |-> IF msgs[i].id = tempId THEN data ELSE msgs[i]]

\* setNewMessage(content) of handleSend's catch.
RestoreInput(req) == req.content

\* handleSend after its await: replace the placeholder, or on an error drop
\* it and restore the input; finally setSending(false).
SendResponseNoFinally(v) ==
  /\ cw[v].send.state \in {"committed", "error"}
  /\ LET req == cw[v].send
     IN  IF req.state = "committed"
         THEN /\ cw' = [cw EXCEPT
                    ![v].messages = SetState(v, ReplaceTemp(@, req.tempId, req.data), @),
                    ![v].sending = SetState(v, FALSE, @),
                    ![v].send = NoSend]
              /\ sentLog' = [sentLog EXCEPT ![v] = @ \cup
                               {[tempId |-> req.tempId, serverId |-> req.data.id]}]
         ELSE /\ cw' = [cw EXCEPT
                    ![v].messages = SetState(v, WithoutId(@, req.tempId), @),
                    ![v].newMessage = SetState(v, RestoreInput(req), @),
                    ![v].send = NoSend]
              /\ UNCHANGED sentLog
  /\ UNCHANGED <<conversations, nextConvId, messagesTbl, inbox, echoed>>
  /\ UNCHANGED authVars
  /\ UNCHANGED dirVars

SendResponse(v) ==
  /\ cw[v].send.state \in {"committed", "error"}
  /\ LET req == cw[v].send
     IN  IF req.state = "committed"
         THEN /\ cw' = [cw EXCEPT
                    ![v].messages = SetState(v, ReplaceTemp(@, req.tempId, req.data), @),
                    ![v].sending = SetState(v, FALSE, @),
                    ![v].send = NoSend]
              /\ sentLog' = [sentLog EXCEPT ![v] = @ \cup
                               {[tempId |-> req.tempId, serverId |-> req.data.id]}]
         ELSE /\ cw' = [cw EXCEPT
                    ![v].messages = SetState(v, WithoutId(@, req.tempId), @),
                    ![v].newMessage = SetState(v, RestoreInput(req), @),
                    ![v].sending = SetState(v, FALSE, @),
                    ![v].send = NoSend]
              /\ UNCHANGED sentLog
  /\ UNCHANGED <<conversations, nextConvId, messagesTbl, inbox, echoed>>
  /\ UNCHANGED authVars
  /\ UNCHANGED dirVars

\* setMessages(prev => prev.some(m => m.id === newMsg.id) ? prev : [...prev, newMsg])
MergeAlways(msgs, newMsg) == Append(msgs, newMsg)

MergePushed(msgs, newMsg) ==
  IF HasId(msgs, newMsg.id) THEN msgs ELSE Append(msgs, newMsg)

\* The channel's INSERT callback handles the next pushed row.
PushDeliver(v) ==
  /\ inbox[v] # <<>>
  /\ LET newMsg == Head(inbox[v])
     IN  /\ cw' = [cw EXCEPT ![v].messages = SetState(v, MergePushed(@, newMsg), @)]
         /\ echoed' = [echoed EXCEPT ![v] = @ \cup {newMsg.id}]
  /\ inbox' = [inbox EXCEPT ![v] = Tail(@)]
  /\ UNCHANGED <<conversations, nextConvId, messagesTbl, sentLog>>
  /\ UNCHANGED authVars
  /\ UNCHANGED dirVars

ChatNext ==
  \/ \E v \in ChatViews, a, b \in ChatPair : Mount(v, a, b)
  \/ \E v \in ChatViews : LookupDone(v)
  \/ \E v \in ChatViews : CreateDone(v)
  \/ \E v \in ChatViews : LoadExec(v)
  \/ \E v \in ChatViews : LoadResume(v)
  \/ \E v \in ChatViews : Unmount(v)
  \/ \E v \in ChatViews, t \in Texts : TypeInput(v, t)
  \/ \E v \in ChatViews : Submit(v)
  \/ \E v \in ChatViews : ServerInsert(v)
  \/ \E v \in ChatViews : ServerReject(v)
  \/ \E v \in ChatViews : SendResponse(v)
  \/ \E v \in ChatViews : PushDeliver(v)

\* Opening conversations only: any instance, any two profiles.
ResolveNext ==
  \/ \E v \in Views, a, b \in ProfileIds : Mount(v, a, b)
  \/ \E v \in Views : LookupDone(v)
  \/ \E v \in Views : CreateDone(v)
  \/ \E v \in Views : LoadExec(v)
  \/ \E v \in Views : LoadResume(v)
  \/ \E v \in Views : Unmount(v)

\* ------------------------------------------------------------- AuthProvider

\* useState<User | null>(null), useState<Profile | null>(null)
NoUser == [id |-> Null, email |-> <<>>, username |-> <<>>]
NoProfile == [id |-> Null, user_id |-> Null, username |-> <<>>, email |-> <<>>]

\* The literal 'User'.
UserLit == <<"U", "s", "e", "r">>

\* a || b on strings: b when a is empty (or missing).
Or(a, b) == IF a = <<>> THEN b ELSE a

\* email.split('@')[0]
RECURSIVE LocalPart(_)
LocalPart(e) ==
  IF e = <<>> THEN <<>>
  ELSE IF Head(e) = "@" THEN <<>>
       ELSE <<Head(e)>> \o LocalPart(Tail(e))

\* The row handle_new_user() inserts for a new identity.
ProfileRow(u) ==
  [id |-> RowId(u), user_id |-> u, username |-> Username(u), email |-> Email(u)]

\* fetchProfile's formattedProfile.
FormatProfile(data) ==
  [id |-> data.id, user_id |-> data.user_id,
   username |-> Or(data.username, Or(LocalPart(data.email), UserLit)),
   email |-> data.email]

\* updateUserState's newUser, for the fetched profile (NoProfile: none).
NewUserLocalPart(uid, profileData) ==
  [id |-> uid, email |-> Email(uid),
   username |-> Or(LocalPart(Email(uid)), UserLit)]

NewUser(uid, profileData) ==
  [id |-> uid, email |-> Email(uid),
   username |-> Or(profileData.username, Or(LocalPart(Email(uid)), UserLit))]

\* The profile made up from the session user: signIn's temporary profile and
\* updateUserState's fallback.
ProvisionalProfile(uid, username) ==
  [id |-> uid, user_id |-> uid, username |-> username, email |-> Email(uid)]

\* What updateUserState hands to setProfile.
NewProfileFallback(uid, profileData) ==
  ProvisionalProfile(uid, NewUser(uid, profileData).username)

NewProfile(uid, profileData) ==
  IF profileData # NoProfile THEN profileData
  ELSE ProvisionalProfile(uid, NewUser(uid, profileData).username)

\* signIn's newUser.
SignInUser(uid) ==
  [id |-> uid, email |-> Email(uid),
   username |-> Or(LocalPart(Email(uid)), UserLit)]

\* An awaited backend call. cont: who awaits it ("init": initAuth, "signUp":
\* signUp, "bg": nobody). run: the effect run whose timeout initAuth clears.
Task(kind, uid, cont, run) ==
  [kind |-> kind, uid |-> uid, cont |-> cont, run |-> run, epoch |-> epoch]

\* The awaited calls with one more, and with one answered.
Issue(b, t) == b (+) SetToBag({t})
Answered(b, t) == b (-) SetToBag({t})

\* Map.set / Map.clear on profileCache.
CacheSet(c, k, val) == [x \in DOMAIN c \cup {k} |-> IF x = k THEN val ELSE c[x]]
EmptyCache == [x \in {} |-> NoProfile]

\* One notification per active listener, carrying the session's identity.
RECURSIVE EventsFor(_, _)
EventsFor(ls, sess) ==
  IF ls = {} THEN <<>>
  ELSE LET r == CHOOSE x \in ls : TRUE
       IN  <<[to |-> r, sess |-> sess]>> \o EventsFor(ls \ {r}, sess)

RECURSIVE NotTo(_, _)
NotTo(q, r) ==
  IF q = <<>> THEN <<>>
  ELSE IF Head(q).to = r THEN NotTo(Tail(q), r)
       ELSE <<Head(q)>> \o NotTo(Tail(q), r)

\* No auth call has failed yet.
NoErrors == [answered |-> 0, thrown |-> 0]

InitialRows == {EmptyCache, [x \in {11} |-> ProfileRow(11)]}

AuthInit ==
  /\ session \in {Null, 11}
  /\ accounts = {11}
  /\ profilesTbl \in InitialRows
  /\ user = NoUser
  /\ profile = NoProfile
  /\ loading = TRUE
  /\ profileCache = EmptyCache
  /\ sessionChecked = FALSE
  /\ effectActive = FALSE
  /\ runs = 0
  /\ timers = {}
  /\ listeners = {}
  /\ tasks = EmptyBag
  /\ authEvents = <<>>
  /\ opCount = 0
  /\ envEvents = 0
  /\ epoch = 0
  /\ pubEpoch = 0
  /\ cacheEpoch = [x \in {} |-> 0]
  /\ cachedAtSignOut = {}
  /\ callErrors = NoErrors

\* updateUserState(sessionUser) up to its first suspension, called in epoch
\* ep with the other awaited calls being rest: a cached profile is published
\* at once, otherwise the profile query is issued.
UpdateUserState(uid, cont, run, rest) ==
  IF uid \in DOMAIN profileCache
  THEN /\ user' = NewUser(uid, profileCache[uid])
       /\ profile' = NewProfile(uid, profileCache[uid])
       /\ pubEpoch' = epoch
       /\ tasks' = rest
  ELSE /\ tasks' = Issue(rest, Task("fetch", uid, cont, run))
       /\ UNCHANGED <<user, profile, pubEpoch>>

\* The bootstrap effect: the guard, the safety timeout, initAuth() up to its
\* await of getSession(), and the listener registration.
BootstrapEffect ==
  /\ ~effectActive
  /\ ~sessionChecked
  /\ sessionChecked' = TRUE
  /\ effectActive' = TRUE
  /\ runs' = runs + 1
  /\ timers' = timers \cup {runs + 1}
  /\ tasks' = Issue(tasks, Task("getSession", Null, "init", runs + 1))
  /\ listeners' = listeners \cup {runs + 1}
  /\ UNCHANGED <<session, accounts, profilesTbl, user, profile, loading,
                 profileCache, authEvents, opCount, envEvents, epoch,
                 pubEpoch, cacheEpoch>>
  /\ UNCHANGED chatVars
  /\ UNCHANGED cachedAtSignOut
  /\ UNCHANGED callErrors
  /\ UNCHANGED dirVars

\* The effect's cleanup.
CleanupKeepsListener ==
  /\ effectActive
  /\ runs <= MaxRemounts
  /\ timers' = timers \ {runs}
  /\ UNCHANGED <<listeners, authEvents>>
  /\ sessionChecked' = FALSE
  /\ effectActive' = FALSE
  /\ UNCHANGED <<session, accounts, profilesTbl, user, profile, loading,
                 profileCache, runs, tasks, opCount, envEvents, epoch,
                 pubEpoch, cacheEpoch>>
  /\ UNCHANGED chatVars
  /\ UNCHANGED cachedAtSignOut
  /\ UNCHANGED callErrors
  /\ UNCHANGED dirVars

Cleanup ==
  /\ effectActive
  /\ runs <= MaxRemounts
  /\ timers' = timers \ {runs}
  /\ listeners' = listeners \ {runs}
  /\ authEvents' = NotTo(authEvents, runs)
  /\ sessionChecked' = FALSE
  /\ effectActive' = FALSE
  /\ UNCHANGED <<session, accounts, profilesTbl, user, profile, loading,
                 profileCache, runs, tasks, opCount, envEvents, epoch,
                 pubEpoch, cacheEpoch>>
  /\ UNCHANGED chatVars
  /\ UNCHANGED cachedAtSignOut
  /\ UNCHANGED callErrors
  /\ UNCHANGED dirVars

\* The safety timeout fires: setLoading(false).
TimerNoop(r) ==
  /\ r \in timers
  /\ timers' = timers \ {r}
  /\ UNCHANGED <<session, accounts, profilesTbl, user, profile, loading,
                 profileCache, sessionChecked, effectActive, runs, listeners,
                 tasks, authEvents, opCount, envEvents, epoch, pubEpoch,
                 cacheEpoch>>
  /\ UNCHANGED <<chatVars, cachedAtSignOut, callErrors, dirVars>>

TimerFire(r) ==
  /\ r \in timers
  /\ loading' = FALSE
  /\ timers' = timers \ {r}
  /\ UNCHANGED <<session, accounts, profilesTbl, user, profile,
                 profileCache, sessionChecked, effectActive, runs, listeners,
                 tasks, authEvents, opCount, envEvents, epoch, pubEpoch,
                 cacheEpoch>>
  /\ UNCHANGED chatVars
  /\ UNCHANGED cachedAtSignOut
  /\ UNCHANGED callErrors
  /\ UNCHANGED dirVars

\* getSession() answers (or throws): initAuth goes on to updateUserState and,
\* when nothing is left to await, to its finally block.
GetSessionDone(t) ==
  /\ t.kind = "getSession"
  /\ \E sess \in {session, Null} :
       IF sess # Null /\ sess \notin DOMAIN profileCache
       THEN /\ UpdateUserState(sess, "init", t.run, Answered(tasks, t))
            /\ UNCHANGED <<timers, loading>>
       ELSE /\ IF sess # Null
               THEN UpdateUserState(sess, "init", t.run, Answered(tasks, t))
               ELSE /\ tasks' = Answered(tasks, t)
                    /\ UNCHANGED <<user, profile, pubEpoch>>
            /\ timers' = timers \ {t.run}
            /\ loading' = FALSE
  /\ UNCHANGED <<session, accounts, profilesTbl, profileCache, sessionChecked,
                 effectActive, runs, listeners, authEvents, opCount,
                 envEvents, epoch, cacheEpoch>>
  /\ UNCHANGED chatVars
  /\ UNCHANGED cachedAtSignOut
  /\ UNCHANGED callErrors
  /\ UNCHANGED dirVars

\* The profile query answers: fetchProfile caches and returns the row, or
\* returns null (not found, or an error it caught); updateUserState publishes;
\* an awaiting initAuth runs its finally block.
FetchDoneCachesNull(t) ==
  /\ t.kind = "fetch"
  /\ LET found == IF t.uid \in DOMAIN profilesTbl
                  THEN {FormatProfile(profilesTbl[t.uid])} ELSE {}
     IN \E profileData \in found \cup {NoProfile} :
           /\ profileCache' = CacheSet(profileCache, t.uid, NewProfile(t.uid, profileData))
           /\ cacheEpoch' = CacheSet(cacheEpoch, t.uid, t.epoch)
           /\ user' = NewUser(t.uid, profileData)
           /\ profile' = NewProfile(t.uid, profileData)
           /\ pubEpoch' = t.epoch
           /\ IF t.cont = "init"
              THEN /\ timers' = timers \ {t.run}
                   /\ loading' = FALSE
              ELSE UNCHANGED <<timers, loading>>
  /\ tasks' = Answered(tasks, t)
  /\ UNCHANGED <<session, accounts, profilesTbl, sessionChecked, effectActive,
                 runs, listeners, authEvents, opCount, envEvents, epoch>>
  /\ UNCHANGED chatVars
  /\ UNCHANGED cachedAtSignOut
  /\ UNCHANGED callErrors
  /\ UNCHANGED dirVars

FetchDone(t) ==
  /\ t.kind = "fetch"
  /\ LET found == IF t.uid \in DOMAIN profilesTbl
                  THEN {FormatProfile(profilesTbl[t.uid])} ELSE {}
     IN \E profileData \in found \cup {NoProfile} :
           /\ IF profileData # NoProfile
              THEN /\ profileCache' = CacheSet(profileCache, t.uid, profileData)
                   /\ cacheEpoch' = CacheSet(cacheEpoch, t.uid, t.epoch)
              ELSE UNCHANGED <<profileCache, cacheEpoch>>
           /\ user' = NewUser(t.uid, profileData)
           /\ profile' = NewProfile(t.uid, profileData)
           /\ pubEpoch' = t.epoch
           /\ IF t.cont = "init"
              THEN /\ timers' = timers \ {t.run}
                   /\ loading' = FALSE
              ELSE UNCHANGED <<timers, loading>>
  /\ tasks' = Answered(tasks, t)
  /\ UNCHANGED <<session, accounts, profilesTbl, sessionChecked, effectActive,
                 runs, listeners, authEvents, opCount, envEvents, epoch>>
  /\ UNCHANGED chatVars
  /\ UNCHANGED cachedAtSignOut
  /\ UNCHANGED callErrors
  /\ UNCHANGED dirVars

\* A consumer (rendered once loading is false) calls signIn / signUp / signOut:
\* the call runs up to its await.
SignInCallShowsLoading(u) ==
  /\ ~loading /\ opCount < MaxOps
  /\ tasks' = Issue(tasks, Task("signIn", u, "bg", 0))
  /\ opCount' = opCount + 1
  /\ loading' = TRUE
  /\ UNCHANGED <<session, accounts, profilesTbl, user, profile,
                 profileCache, sessionChecked, effectActive, runs, timers,
                 listeners, authEvents, envEvents, epoch, pubEpoch, cacheEpoch>>
  /\ UNCHANGED chatVars
  /\ UNCHANGED cachedAtSignOut
  /\ UNCHANGED callErrors
  /\ UNCHANGED dirVars

SignInCall(u) ==
  /\ ~loading /\ opCount < MaxOps
  /\ tasks' = Issue(tasks, Task("signIn", u, "bg", 0))
  /\ opCount' = opCount + 1
  /\ UNCHANGED <<session, accounts, profilesTbl, user, profile, loading,
                 profileCache, sessionChecked, effectActive, runs, timers,
                 listeners, authEvents, envEvents, epoch, pubEpoch, cacheEpoch>>
  /\ UNCHANGED chatVars
  /\ UNCHANGED cachedAtSignOut
  /\ UNCHANGED callErrors
  /\ UNCHANGED dirVars

SignUpCall(u) ==
  /\ ~loading /\ opCount < MaxOps
  /\ tasks' = Issue(tasks, Task("signUp", u, "bg", 0))
  /\ opCount' = opCount + 1
  /\ UNCHANGED <<session, accounts, profilesTbl, user, profile, loading,
                 profileCache, sessionChecked, effectActive, runs, timers,
                 listeners, authEvents, envEvents, epoch, pubEpoch, cacheEpoch>>
  /\ UNCHANGED chatVars
  /\ UNCHANGED cachedAtSignOut
  /\ UNCHANGED callErrors
  /\ UNCHANGED dirVars

SignOutCall ==
  /\ ~loading /\ opCount < MaxOps
  /\ tasks' = Issue(tasks, Task("signOut", Null, "bg", 0))
  /\ opCount' = opCount + 1
  /\ UNCHANGED <<session, accounts, profilesTbl, user, profile, loading,
                 profileCache, sessionChecked, effectActive, runs, timers,
                 listeners, authEvents, envEvents, epoch, pubEpoch, cacheEpoch>>
  /\ UNCHANGED chatVars
  /\ UNCHANGED cachedAtSignOut
  /\ UNCHANGED callErrors
  /\ UNCHANGED dirVars

\* An auth call answers with an error: the call throws to its caller.
AuthCallSwallows(t) ==
  /\ t.kind \in {"signIn", "signUp", "signOut"}
  /\ tasks' = Answered(tasks, t)
  /\ callErrors' = [callErrors EXCEPT !.answered = @ + 1]
  /\ user' = NoUser
  /\ profile' = NoProfile
  /\ UNCHANGED <<session, accounts, profilesTbl, loading,
                 profileCache, sessionChecked, effectActive, runs, timers,
                 listeners, authEvents, opCount, envEvents, epoch, pubEpoch,
                 cacheEpoch>>
  /\ UNCHANGED <<chatVars, cachedAtSignOut, dirVars>>

AuthCallFails(t) ==
  /\ t.kind \in {"signIn", "signUp", "signOut"}
  /\ tasks' = Answered(tasks, t)
  /\ callErrors' = [answered |-> callErrors.answered + 1,
                    thrown |-> callErrors.thrown + 1]
  /\ UNCHANGED <<session, accounts, profilesTbl, user, profile, loading,
                 profileCache, sessionChecked, effectActive, runs, timers,
                 listeners, authEvents, opCount, envEvents, epoch, pubEpoch,
                 cacheEpoch>>
  /\ UNCHANGED chatVars
  /\ UNCHANGED cachedAtSignOut
  /\ UNCHANGED dirVars

\* signInWithPassword() succeeds: the user and the temporary profile are set,
\* loading is cleared and updateUserState runs in the background.
SignInDone(t) ==
  /\ t.kind = "signIn"
  /\ t.uid \in accounts
  /\ LET u == t.uid
     IN  /\ session' = u
         /\ authEvents' = authEvents \o EventsFor(listeners, u)
         /\ loading' = FALSE
         /\ IF u \in DOMAIN profileCache
            THEN UpdateUserState(u, "bg", 0, Answered(tasks, t))
            ELSE /\ user' = SignInUser(u)
                 /\ profile' = ProvisionalProfile(u, SignInUser(u).username)
                 /\ pubEpoch' = epoch
                 /\ tasks' = Issue(Answered(tasks, t), Task("fetch", u, "bg", 0))
  /\ UNCHANGED <<accounts, profilesTbl, profileCache, sessionChecked,
                 effectActive, runs, timers, listeners, opCount, envEvents,
                 epoch, cacheEpoch>>
  /\ UNCHANGED chatVars
  /\ UNCHANGED cachedAtSignOut
  /\ UNCHANGED callErrors
  /\ UNCHANGED dirVars

\* signUp() of a new identity succeeds: the backend stores the account, its
\* trigger provisions the profile, and signUp awaits updateUserState.
SignUpDone(t) ==
  /\ t.kind = "signUp"
  /\ t.uid \notin accounts
  /\ LET u == t.uid
     IN  /\ accounts' = accounts \cup {u}
         /\ profilesTbl' = CacheSet(profilesTbl, u, ProfileRow(u))
         /\ \E confirmed \in BOOLEAN :
              IF confirmed
              THEN /\ session' = u
                   /\ authEvents' = authEvents \o EventsFor(listeners, u)
              ELSE UNCHANGED <<session, authEvents>>
         /\ UpdateUserState(u, "signUp", 0, Answered(tasks, t))
  /\ UNCHANGED <<loading, profileCache, sessionChecked, effectActive, runs,
                 timers, listeners, opCount, envEvents, epoch, cacheEpoch>>
  /\ UNCHANGED chatVars
  /\ UNCHANGED cachedAtSignOut
  /\ UNCHANGED callErrors
  /\ UNCHANGED dirVars

\* signOut() succeeds: user, profile and cache are cleared.
SignOutKeepsCache == profileCache

SignOutCache == EmptyCache

SignOutDone(t) ==
  /\ t.kind = "signOut"
  /\ session' = Null
  /\ authEvents' = authEvents \o EventsFor(listeners, Null)
  /\ user' = NoUser
  /\ profile' = NoProfile
  /\ profileCache' = SignOutCache
  /\ cacheEpoch' = [x \in DOMAIN profileCache' |-> cacheEpoch[x]]
  /\ epoch' = epoch + 1
  /\ pubEpoch' = epoch + 1
  /\ cachedAtSignOut' = DOMAIN profileCache
  /\ UNCHANGED callErrors
  /\ tasks' = Answered(tasks, t)
  /\ UNCHANGED <<accounts, profilesTbl, loading, sessionChecked, effectActive,
                 runs, timers, listeners, opCount, envEvents>>
  /\ UNCHANGED chatVars
  /\ UNCHANGED dirVars

\* The backend changes or refreshes the session on its own and notifies.
EmitEvent(sess) ==
  /\ envEvents < MaxEvents
  /\ listeners # {}
  /\ session' = sess
  /\ authEvents' = authEvents \o EventsFor(listeners, sess)
  /\ envEvents' = envEvents + 1
  /\ UNCHANGED <<accounts, profilesTbl, user, profile, loading, profileCache,
                 sessionChecked, effectActive, runs, timers, listeners, tasks,
                 opCount, epoch, pubEpoch, cacheEpoch>>
  /\ UNCHANGED chatVars
  /\ UNCHANGED cachedAtSignOut
  /\ UNCHANGED callErrors
  /\ UNCHANGED dirVars

\* The onAuthStateChange callback handles the next notification.
NotifyDeliver ==
  /\ authEvents # <<>>
  /\ LET e == Head(authEvents)
     IN  IF e.sess # Null
         THEN /\ UpdateUserState(e.sess, "bg", 0, tasks)
              /\ UNCHANGED <<profileCache, cacheEpoch>>
         ELSE /\ user' = NoUser
              /\ profile' = NoProfile
              /\ profileCache' = EmptyCache
              /\ cacheEpoch' = [x \in {} |-> 0]
              /\ pubEpoch' = epoch
              /\ UNCHANGED tasks
  /\ authEvents' = Tail(authEvents)
  /\ loading' = FALSE
  /\ UNCHANGED <<session, accounts, profilesTbl, sessionChecked, effectActive,
                 runs, timers, listeners, opCount, envEvents, epoch>>
  /\ UNCHANGED chatVars
  /\ UNCHANGED cachedAtSignOut
  /\ UNCHANGED callErrors
  /\ UNCHANGED dirVars

\* A profile row is provisioned for an account that had none.
ProvisionProfile(u) ==
  /\ u \in accounts \ DOMAIN profilesTbl
  /\ profilesTbl' = CacheSet(profilesTbl, u, ProfileRow(u))
  /\ UNCHANGED <<session, accounts, user, profile, loading, profileCache,
                 sessionChecked, effectActive, runs, timers, listeners, tasks,
                 authEvents, opCount, envEvents, epoch, pubEpoch, cacheEpoch>>
  /\ UNCHANGED chatVars
  /\ UNCHANGED cachedAtSignOut
  /\ UNCHANGED callErrors
  /\ UNCHANGED dirVars

\* The username an owner changes their profile to.
Renamed == <<"n">>

\* The owner updates their profile row (policy profiles_update_own), from
\* another device or client.
UpdateProfile(u) ==
  /\ u \in DOMAIN profilesTbl
  /\ profilesTbl[u].username # Renamed
  /\ profilesTbl' = [profilesTbl EXCEPT ![u].username = Renamed]
  /\ UNCHANGED <<session, accounts, user, profile, loading, profileCache,
                 sessionChecked, effectActive, runs, timers, listeners, tasks,
                 authEvents, opCount, envEvents, epoch, pubEpoch, cacheEpoch>>
  /\ UNCHANGED chatVars
  /\ UNCHANGED cachedAtSignOut
  /\ UNCHANGED callErrors
  /\ UNCHANGED dirVars

AuthNext ==
  \/ BootstrapEffect
  \/ Cleanup
  \/ \E r \in timers : TimerFire(r)
  \/ \E t \in BagToSet(tasks) : GetSessionDone(t)
  \/ \E t \in BagToSet(tasks) : FetchDone(t)
  \/ \E u \in Identities : SignInCall(u)
  \/ \E u \in Identities : SignUpCall(u)
  \/ SignOutCall
  \/ \E t \in BagToSet(tasks) : AuthCallFails(t)
  \/ \E t \in BagToSet(tasks) : SignInDone(t)
  \/ \E t \in BagToSet(tasks) : SignUpDone(t)
  \/ \E t \in BagToSet(tasks) : SignOutDone(t)
  \/ \E sess \in accounts \cup {Null} : EmitEvent(sess)
  \/ NotifyDeliver
  \/ \E u \in Identities : ProvisionProfile(u)

\* ------------------------------------------------------------------ UserList

\* Character codes, for the order of usernames.
CharCode(c) ==
  CASE c = "U" -> 85 [] c = "a" -> 97 [] c = "b" -> 98 [] c = "e" -> 101
    [] c = "l" -> 108 [] c = "r" -> 114 [] c = "s" -> 115 [] c = "z" -> 122
    [] OTHER -> 0

\* s sorts before t.
RECURSIVE TextLess(_, _)
TextLess(s, t) ==
  IF t = <<>> THEN FALSE
  ELSE IF s = <<>> THEN TRUE
  ELSE IF Head(s) = Head(t) THEN TextLess(Tail(s), Tail(t))
  ELSE CharCode(Head(s)) < CharCode(Head(t))

\* .order('username', { ascending: true })
RECURSIVE ByUsername(_)
ByUsername(rows) ==
  IF rows = {} THEN <<>>
  ELSE LET first == CHOOSE r \in rows :
                      \A q \in rows \ {r} : TextLess(r.username, q.username)
       IN  <<first>> \o ByUsername(rows \ {first})

\* .from('profiles').select(...).neq('id', exclude).order('username')
ListProfiles(tbl, exclude) ==
  ByUsername({tbl[u] : u \in {x \in DOMAIN tbl : tbl[x].id # exclude}})

NoDirFetch == [state |-> "none", exclude |-> Null, actor |-> Null]

DirIdle ==
  /\ users = <<>>
  /\ dirLoading = TRUE
  /\ allUsersCache = <<>>
  /\ hasFetched = FALSE
  /\ search = <<>>
  /\ debouncePending = FALSE
  /\ dirFetch = NoDirFetch

\* The effects of a UserList rendered under ProtectedRoute (loading is false
\* and a user is set). The fetch effect: the guard, hasFetched, and fetchUsers
\* up to its await; actor records whose list this is. The search effect of the
\* same commit: the debounce timeout is set.
FetchUsersIssue ==
  /\ ~loading /\ user # NoUser
  /\ profile.id # Null /\ ~hasFetched
  /\ hasFetched' = TRUE
  /\ dirFetch' = [state |-> "issued", exclude |-> profile.id, actor |-> user.id]
  /\ debouncePending' = TRUE
  /\ UNCHANGED <<users, dirLoading, allUsersCache, search>>
  /\ UNCHANGED <<chatVars, authVars>>

\* The directory query answers: the rows are cached and shown, or the error
\* is logged; finally setLoading(false).
FetchUsersDone ==
  /\ dirFetch.state = "issued"
  /\ \E ok \in BOOLEAN :
       IF ok
       THEN /\ allUsersCache' = ListProfiles(profilesTbl, dirFetch.exclude)
            /\ users' = ListProfiles(profilesTbl, dirFetch.exclude)
       ELSE UNCHANGED <<allUsersCache, users>>
  /\ dirLoading' = FALSE
  /\ dirFetch' = [dirFetch EXCEPT !.state = "done"]
  /\ UNCHANGED <<hasFetched, search, debouncePending>>
  /\ UNCHANGED <<chatVars, authVars>>

\* What is typed into the search box: nothing, a capital, a letter after a
\* blank, a letter no row has.
SearchTexts == {<<>>, <<"Z">>, <<" ", "a">>, <<"q">>}

\* String.prototype.toLowerCase
Lower(c) == CASE c = "Z" -> "z" [] c = "A" -> "a" [] c = "U" -> "u" [] OTHER -> c

ToLowerCase(s) == [i \in 1..Len(s) |-> Lower(s[i])]

\* String.prototype.includes
Includes(s, sub) ==
  \E k \in 0..(Len(s) - Len(sub)) : SubSeq(s, k + 1, k + Len(sub)) = sub

\* What the debounce callback hands to setUsers.
FilterUsers(cache, text) ==
  LET searchValue == ToLowerCase(Trim(text))
  IN  IF searchValue = <<>> THEN cache
      ELSE SelectSeq(cache, LAMBDA u :
             \/ Includes(ToLowerCase(u.username), searchValue)
             \/ Includes(ToLowerCase(u.email), searchValue))

\* onChange of the search box: setSearch, and the search effect runs again
\* (its cleanup clears the pending timeout, a new one is set).
SearchEdit(t) ==
  /\ ~loading /\ user # NoUser
  /\ hasFetched
  /\ t # search
  /\ search' = t
  /\ debouncePending' = TRUE
  /\ UNCHANGED <<users, dirLoading, allUsersCache, hasFetched, dirFetch>>
  /\ UNCHANGED <<chatVars, authVars>>

\* The debounce timeout fires.
DebounceFire ==
  /\ debouncePending
  /\ users' = FilterUsers(allUsersCache, search)
  /\ debouncePending' = FALSE
  /\ UNCHANGED <<dirLoading, allUsersCache, hasFetched, search, dirFetch>>
  /\ UNCHANGED <<chatVars, authVars>>

\* A client without a stored session, and two accounts with profiles to sign
\* in to.
DirAuthInit ==
  /\ session = Null
  /\ accounts = {11, 12}
  /\ profilesTbl = [x \in {11, 12} |-> ProfileRow(x)]
  /\ user = NoUser
  /\ profile = NoProfile
  /\ loading = TRUE
  /\ profileCache = EmptyCache
  /\ sessionChecked = FALSE
  /\ effectActive = FALSE
  /\ runs = 0
  /\ timers = {}
  /\ listeners = {}
  /\ tasks = EmptyBag
  /\ authEvents = <<>>
  /\ opCount = 0
  /\ envEvents = 0
  /\ epoch = 0
  /\ pubEpoch = 0
  /\ cacheEpoch = [x \in {} |-> 0]
  /\ cachedAtSignOut = {}
  /\ callErrors = NoErrors

\* Bootstrap and sign-in, followed by the directory.
DirNext ==
  \/ BootstrapEffect
  \/ \E r \in timers : TimerFire(r)
  \/ \E t \in BagToSet(tasks) : GetSessionDone(t)
  \/ \E t \in BagToSet(tasks) : FetchDone(t)
  \/ \E u \in Identities : SignInCall(u)
  \/ \E t \in BagToSet(tasks) : AuthCallFails(t)
  \/ \E t \in BagToSet(tasks) : SignInDone(t)
  \/ NotifyDeliver
  \/ FetchUsersIssue
  \/ FetchUsersDone

\* Bootstrap and sign-in, followed by the directory and searches in it.
SearchNext ==
  \/ BootstrapEffect
  \/ \E r \in timers : TimerFire(r)
  \/ \E t \in BagToSet(tasks) : GetSessionDone(t)
  \/ \E t \in BagToSet(tasks) : FetchDone(t)
  \/ \E u \in Identities : SignInCall(u)
  \/ \E t \in BagToSet(tasks) : AuthCallFails(t)
  \/ \E t \in BagToSet(tasks) : SignInDone(t)
  \/ NotifyDeliver
  \/ FetchUsersIssue
  \/ FetchUsersDone
  \/ \E t \in SearchTexts : SearchEdit(t)
  \/ DebounceFire

\* ChatPage: a row of the list shown is clicked, and ChatWindow is rendered
\* for it with the profile the provider publishes at that moment; its init
\* effect runs.
OpenChat(v, i) ==
  /\ ~loading /\ user # NoUser
  /\ ~dirLoading
  /\ i \in 1..Len(users)
  /\ profile.id # Null
  /\ Mount(v, profile.id, users[i].id)

\* Bootstrap, sign-in, the directory, and a conversation opened from it up to
\* the answer of its lookup.
OpenNext ==
  \/ BootstrapEffect
  \/ \E r \in timers : TimerFire(r)
  \/ \E t \in BagToSet(tasks) : GetSessionDone(t)
  \/ \E t \in BagToSet(tasks) : FetchDone(t)
  \/ \E u \in Identities : SignInCall(u)
  \/ \E t \in BagToSet(tasks) : AuthCallFails(t)
  \/ \E t \in BagToSet(tasks) : SignInDone(t)
  \/ NotifyDeliver
  \/ FetchUsersIssue
  \/ FetchUsersDone
  \/ \E i \in 1..Cardinality(Identities) : OpenChat("v1", i)
  \/ LookupDone("v1")
  \/ Unmount("v1")

\* The other component is not running.
ChatIdle ==
  /\ conversations = {}
  /\ nextConvId = 1
  /\ messagesTbl = <<>>
  /\ cw = [v \in Views |-> InitView]
  /\ inbox = [v \in Views |-> <<>>]
  /\ sentLog = [v \in Views |-> {}]
  /\ echoed = [v \in Views |-> {}]

AuthIdle ==
  /\ session = Null
  /\ accounts = {11}
  /\ profilesTbl = EmptyCache
  /\ user = NoUser
  /\ profile = NoProfile
  /\ loading = TRUE
  /\ profileCache = EmptyCache
  /\ sessionChecked = FALSE
  /\ effectActive = FALSE
  /\ runs = 0
  /\ timers = {}
  /\ listeners = {}
  /\ tasks = EmptyBag
  /\ authEvents = <<>>
  /\ opCount = 0
  /\ envEvents = 0
  /\ epoch = 0
  /\ pubEpoch = 0
  /\ cacheEpoch = [x \in {} |-> 0]
  /\ cachedAtSignOut = {}
  /\ callErrors = NoErrors

\* Initial state when only conversation views run.
InitChat == ChatInit /\ AuthIdle /\ DirIdle

\* Initial state when only the authentication provider runs.
InitAuth == AuthInit /\ ChatIdle /\ DirIdle

\* Initial state of a client that will sign in and open the directory.
InitDir == DirAuthInit /\ ChatIdle /\ DirIdle

\* The conversation views of two clients over one backend.
Spec == InitChat /\ [][ChatNext]_vars

\* Clients opening conversations between any two of the profiles.
SpecResolve == InitChat /\ [][ResolveNext]_vars

\* The authentication provider of one client.
SpecAuth == InitAuth /\ [][AuthNext]_vars

\* The user directory of a client that boots and signs in.
SpecDir == InitDir /\ [][DirNext]_vars

\* What can happen while the provider still shows nothing (consumers are
\* rendered, and can call, only once loading is false).
\* Numbers of messages a conversation holds when it is opened: around the
\* page bound.
StoredCounts == {0, 1, PageLimit - 1, PageLimit, PageLimit + 1, PageLimit + 2}

\* The i-th message committed to conversation 1, the parties taking turns.
StoredRow(i) ==
  [id |-> <<"srv", i>>, conversation_id |-> 1,
   sender_id |-> IF i % 2 = 1 THEN 1 ELSE 2,
   content |-> <<"a">>, created_at |-> i]

\* A conversation with a history, about to be opened.
InitPage ==
  /\ conversations = {[id |-> 1, user1_id |-> 1, user2_id |-> 2]}
  /\ nextConvId = 2
  /\ \E n \in StoredCounts : messagesTbl = [i \in 1..n |-> StoredRow(i)]
  /\ cw = [v \in Views |-> InitView]
  /\ inbox = [v \in Views |-> <<>>]
  /\ sentLog = [v \in Views |-> {}]
  /\ echoed = [v \in Views |-> {}]
  /\ AuthIdle
  /\ DirIdle

\* Opening that conversation from either side.
PageNext ==
  \/ \E v \in ChatViews, a, b \in ChatPair : Mount(v, a, b)
  \/ \E v \in ChatViews : LookupDone(v)
  \/ \E v \in ChatViews : LoadExec(v)
  \/ \E v \in ChatViews : LoadResume(v)
  \/ \E v \in ChatViews : Unmount(v)

SpecPage == InitPage /\ [][PageNext]_vars

\* The directory with its search box.
SpecSearch == InitDir /\ [][SearchNext]_vars

\* A client from boot to an opened conversation.
SpecOpen == InitDir /\ [][OpenNext]_vars

\* The provider's profile lookups while the backend's rows may change.
CacheNext ==
  \/ BootstrapEffect
  \/ Cleanup
  \/ \E r \in timers : TimerFire(r)
  \/ \E t \in BagToSet(tasks) : GetSessionDone(t)
  \/ \E t \in BagToSet(tasks) : FetchDone(t)
  \/ \E sess \in accounts \cup {Null} : EmitEvent(sess)
  \/ NotifyDeliver
  \/ \E u \in Identities : ProvisionProfile(u)
  \/ \E u \in Identities : UpdateProfile(u)

SpecCache == InitAuth /\ [][CacheNext]_vars

\* One client opening a conversation and sending in it.
SendNext ==
  \/ \E a, b \in ChatPair : Mount("v1", a, b)
  \/ LookupDone("v1")
  \/ CreateDone("v1")
  \/ LoadExec("v1")
  \/ LoadResume("v1")
  \/ Unmount("v1")
  \/ \E t \in Texts : TypeInput("v1", t)
  \/ Submit("v1")
  \/ ServerInsert("v1")
  \/ ServerReject("v1")
  \/ SendResponse("v1")
  \/ PushDeliver("v1")

\* That client under the scheduling the runtime and the backend give: the
\* backend answers an issued write, and the event loop resumes handleSend once
\* the answer is there. Nothing obliges the user to type, submit or leave.
SpecSendFair ==
  /\ InitChat
  /\ [][SendNext]_vars
  /\ WF_vars(ServerInsert("v1") \/ ServerReject("v1"))
  /\ WF_vars(SendResponse("v1"))

BootNext ==
  \/ BootstrapEffect
  \/ Cleanup
  \/ \E r \in timers : TimerFire(r)
  \/ \E t \in BagToSet(tasks) : GetSessionDone(t)
  \/ \E t \in BagToSet(tasks) : FetchDone(t)
  \/ \E sess \in accounts \cup {Null} : EmitEvent(sess)
  \/ NotifyDeliver
  \/ \E u \in Identities : ProvisionProfile(u)

\* The bootstrap under the scheduling the runtime guarantees: a pending
\* timeout fires, and React runs the effect again after a simulated teardown.
\* Nothing obliges the backend to answer or to notify.
SpecBootFair ==
  /\ InitAuth
  /\ [][BootNext]_vars
  /\ WF_vars(\E r \in timers : TimerFire(r))
  /\ WF_vars(BootstrapEffect)

\* ================================================================== claims

\* The unordered pair of profiles a view's conversation is between.
PairOf(v) == {cw[v].profileId, cw[v].otherUserId}

\* initChat of v has ended and nothing it awaits is pending.
Settled(v) == cw[v].pc \in {"ready", "failed"} /\ cw[v].send.state = "none"

\* C1: once the response of a successful send and the pushed echo of the same
\* message have both been handled, in either order, the visible sequence
\* holds exactly one entry with the server id and none with the placeholder id.
C1_OneEntryAfterReconciliation ==
  \A v \in Views : \A s \in sentLog[v] :
    (cw[v].mounted /\ s.serverId \in echoed[v]) =>
      /\ CountId(cw[v].messages, s.serverId) = 1
      /\ ~HasId(cw[v].messages, s.tempId)

\* C2: in every reachable state at most one conversation row exists per
\* unordered pair of profiles.
C2_OneConversationPerPair ==
  \A r1, r2 \in conversations :
    {r1.user1_id, r1.user2_id} = {r2.user1_id, r2.user2_id} => r1 = r2

\* Two resolvers raced from opposite sides: one created the row, the other's
\* create was rejected.
C2_RaceFromBothSides ==
  \E v, w \in Views :
    /\ cw[v].profileId = cw[w].otherUserId
    /\ cw[v].otherUserId = cw[w].profileId
    /\ cw[v].profileId # Null
    /\ cw[v].conversationIdRef # Null
    /\ cw[w].initError = "conflict"

\* C3: a resolver whose create failed on the uniqueness conflict ends with the
\* id of the existing conversation of its pair as its active conversation id.
C3_ConflictRecovered ==
  \A v \in Views :
    cw[v].initError = "conflict" =>
      \E r \in FindConversation(conversations, cw[v].profileId, cw[v].otherUserId) :
        cw[v].conversationIdRef = r.id

\* C4: resolutions of the same unordered pair yield the same conversation id
\* whichever profile initiates: any two views of the pair that hold an id hold
\* the same one, and a lookup made while the pair's conversation exists yields
\* that conversation's id, in whichever order the row stores the pair.
C4_SameIdFromBothSides ==
  /\ [](\A v, w \in Views :
          (PairOf(v) = PairOf(w) /\ cw[v].conversationIdRef # Null
             /\ cw[w].conversationIdRef # Null)
          => cw[v].conversationIdRef = cw[w].conversationIdRef)
  /\ [][\A v \in Views : \A r \in conversations :
          (cw[v].pc = "lookup" /\ cw'[v].pc # "lookup"
             /\ {r.user1_id, r.user2_id} = PairOf(v))
          => cw'[v].conversationIdRef = r.id]_vars

\* A resolved from A to B and another from B to A, both holding an id.
C4_ResolvedFromBothSides ==
  \E v, w \in Views :
    /\ cw[v].profileId = cw[w].otherUserId
    /\ cw[v].otherUserId = cw[w].profileId
    /\ cw[v].conversationIdRef # Null
    /\ cw[w].conversationIdRef # Null

\* C6: when the write of a send fails, handling the failure removes the
\* placeholder from the visible sequence and leaves nothing else changed in
\* it, and the input holds exactly the text that was typed, blanks included.
C6_FailedSendRestoresDraft ==
  [][\A v \in Views :
       (cw[v].mounted /\ cw[v].send.state = "error" /\ cw'[v].send.state = "none")
       => /\ cw'[v].messages = WithoutId(cw[v].messages, cw[v].send.tempId)
          /\ cw'[v].newMessage = cw[v].send.typed]_vars

\* C8: after a view is torn down and everything it awaited has completed, no
\* subscription opened by it is open.
C8_SubscriptionReleased ==
  \A v \in Views :
    (~cw[v].mounted /\ Settled(v)) => cw[v].channelRef = Null

\* C5: nothing a profile resolution started before a sign-out writes survives
\* it: whatever is published (user, profile) or cached was written by a
\* resolution that started after the last successful sign-out, so after a
\* sign-out the three stay cleared until a newer writer publishes.
C5_StaleResolutionIgnored ==
  /\ (user # NoUser \/ profile # NoProfile) => pubEpoch = epoch
  /\ \A u \in DOMAIN profileCache : cacheEpoch[u] = epoch

\* C7: every run of the mounted provider reaches loading = false, whether or
\* not getSession() ever answers.
C7_LoadingEnds == <>(loading = FALSE)

\* The timeout, and nothing else, has cleared loading: getSession() of the
\* current run is still unanswered, no notification was emitted and no
\* consumer has called anything.
C7_TimerClearedLoading ==
  /\ loading = FALSE
  /\ opCount = 0 /\ envEvents = 0
  /\ \E t \in BagToSet(tasks) : t.kind = "getSession" /\ t.run = runs

\* C9: once the directory fetch has completed, the list shown holds no profile
\* of the identity it was fetched for.
C9_OwnProfileNotListed ==
  dirFetch.state = "done" =>
    \A i \in 1..Len(users) : users[i].user_id # dirFetch.actor

\* C10: an identity that was cached when sign-out cleared the cache has no
\* entry in it that was fetched before that sign-out, so its next lookup goes
\* to the backend.
C10_LookupRefetchesAfterSignOut ==
  \A u \in cachedAtSignOut \cap DOMAIN profileCache : cacheEpoch[u] = epoch

\* C11: handling a pushed insert whose id is already in the visible sequence
\* leaves the sequence as it was, and merging any stored message a second time
\* gives what merging it once gives.
C11_DuplicatePushIgnored ==
  /\ [][\A v \in Views :
          (inbox[v] # <<>> /\ inbox'[v] = Tail(inbox[v])
             /\ HasId(cw[v].messages, Head(inbox[v]).id))
          => cw'[v].messages = cw[v].messages]_vars
  /\ [](\A v \in Views : \A i \in 1..Len(messagesTbl) :
          MergePushed(MergePushed(cw[v].messages, messagesTbl[i]), messagesTbl[i])
            = MergePushed(cw[v].messages, messagesTbl[i]))

\* A sender whose response came first and whose echo was then handled: the
\* echo's id was already in the sequence.
C11_EchoAfterResponse ==
  \E v \in Views : \E s \in sentLog[v] :
    /\ cw[v].mounted
    /\ s.serverId \in echoed[v]
    /\ CountId(cw[v].messages, s.serverId) = 1

\* C12: in every reachable state the visible sequence of an open view is
\* non-decreasing by created_at.
C12_OrderedByCreatedAt ==
  \A v \in Views :
    cw[v].mounted =>
      \A i, j \in 1..Len(cw[v].messages) :
        i < j => cw[v].messages[i].created_at <= cw[v].messages[j].created_at

\* C13: the session bootstrap (the getSession() request and the registration
\* of the session-change listener) runs at most once, whatever the provider's
\* effect is put through.
C13_BootstrapOnce == runs <= 1

\* C14: when signInWithPassword() succeeds and the profile has to be fetched,
\* the step that issues the fetch publishes the identity and a profile made up
\* from it, both named by the local part of the e-mail, and clears loading;
\* and when a profile fetch answers with the stored row, the published profile
\* becomes that row in place of the made-up one.
C14_ProvisionalThenAuthoritative ==
  [][\A t \in BagToSet(tasks) :
       /\ (t.kind = "signIn"
            /\ tasks' = Issue(Answered(tasks, t), Task("fetch", t.uid, "bg", 0)))
          => /\ user' = [id |-> t.uid, email |-> Email(t.uid),
                         username |-> LocalPart(Email(t.uid))]
             /\ profile' = [id |-> t.uid, user_id |-> t.uid,
                            username |-> LocalPart(Email(t.uid)),
                            email |-> Email(t.uid)]
             /\ loading' = FALSE
       /\ (t.kind = "fetch" /\ tasks' = Answered(tasks, t)
            /\ t.uid \in DOMAIN profilesTbl
            /\ user'.username = profilesTbl[t.uid].username)
          => /\ profile' = profilesTbl[t.uid]
             /\ profile'.id # t.uid]_vars

\* Right after a sign-in: the made-up profile is published, loading is false
\* and the fetch that signIn started is still awaited.
C14_ProvisionalWhileFetching ==
  /\ loading = FALSE
  /\ envEvents = 0
  /\ session = 11
  /\ user = [id |-> 11, email |-> Email(11), username |-> <<"a">>]
  /\ profile = [id |-> 11, user_id |-> 11, username |-> <<"a">>,
                email |-> Email(11)]
  /\ \E t \in BagToSet(tasks) : t.kind = "fetch" /\ t.uid = 11 /\ t.cont = "bg"

\* C15: the step in which a signOut() whose backend call succeeded resumes
\* leaves the published identity null, the published profile null, the profile
\* cache empty and loading false.
C15_SignOutClears ==
  [][epoch' = epoch + 1 =>
       /\ user' = NoUser
       /\ profile' = NoProfile
       /\ DOMAIN profileCache' = {}
       /\ loading' = FALSE
       /\ session' = Null]_vars

\* A sign-out that had something to clear has just succeeded.
C15_SignedOut ==
  /\ epoch = 1
  /\ cachedAtSignOut # {}
  /\ user = NoUser /\ profile = NoProfile /\ DOMAIN profileCache = {}
  /\ session = Null

\* C16: whenever the backend fails a signIn, signUp or signOut call, the call
\* throws to its caller in the step that handles the answer, and the published
\* identity, the published profile and the profile cache stay as they were.
C16_FailureSurfacesUnchanged ==
  [][callErrors'.answered # callErrors.answered =>
       /\ callErrors'.thrown = callErrors.thrown + 1
       /\ user' = user
       /\ profile' = profile
       /\ profileCache' = profileCache]_vars

\* A call failed while an identity, its profile and a cache entry were
\* published, and they are still there.
C16_FailedWhileSignedIn ==
  /\ callErrors.answered > 0
  /\ callErrors.thrown = callErrors.answered
  /\ user # NoUser /\ profile # NoProfile /\ DOMAIN profileCache # {}
  /\ epoch = 0

\* C17: if the backend answers every write, a view whose sending flag is true
\* gets it back to false (or is torn down, its state going with it), whether
\* the write succeeded or failed.
C17_SendingEnds ==
  \A v \in Views :
    (cw[v].mounted /\ cw[v].sending) ~> (~cw[v].sending \/ ~cw[v].mounted)

\* A submit whose write the backend rejected has completed: sending is false
\* again.
C17_FailedSendCompleted ==
  \E v \in ChatViews :
    /\ cw[v].mounted
    /\ cw[v].clock = 1
    /\ cw[v].send.state = "none"
    /\ ~cw[v].sending
    /\ messagesTbl = <<>>

\* Entries of msgs that carry a placeholder id.
CountTemp(msgs) == Cardinality({i \in 1..Len(msgs) : msgs[i].id[1] = "temp"})

\* C18: a view has at most one write in flight: while one is, its sending
\* flag is true, and no step issues another write (reads the clock for a new
\* placeholder id), appends a placeholder or puts another write in its place.
C18_OneWriteInFlight ==
  /\ [](\A v \in Views :
          (cw[v].mounted /\ cw[v].send.state # "none") => cw[v].sending)
  /\ [][\A v \in Views :
          cw[v].send.state # "none" =>
            /\ cw'[v].clock = cw[v].clock
            /\ CountTemp(cw'[v].messages) <= CountTemp(cw[v].messages)
            /\ (cw'[v].send.state # "none"
                  => cw'[v].send.tempId = cw[v].send.tempId)]_vars

\* A write is in flight in a view where a submit can arrive.
C18_SubmitWhileInFlight ==
  \E v \in ChatViews :
    /\ cw[v].mounted /\ ~cw[v].loading
    /\ cw[v].send.state = "issued"
    /\ cw[v].sending
    /\ SumClock(Views) < MaxMsgs

\* A text of blanks only (the empty text included).
AllBlank(s) == \A i \in 1..Len(s) : s[i] = " "

\* C19: while a view's input holds only blanks, or it has no conversation id
\* or no profile id, and no write of it is pending, no step issues a write,
\* sets the sending flag or appends a placeholder: a submit there does nothing.
C19_RejectedSubmitIsNoOp ==
  [][\A v \in Views :
       (cw[v].send.state = "none"
          /\ (AllBlank(cw[v].newMessage) \/ cw[v].conversationIdRef = Null
                \/ cw[v].profileId = Null))
       => /\ cw'[v].send = cw[v].send
          /\ cw'[v].clock = cw[v].clock
          /\ cw'[v].sending = cw[v].sending
          /\ CountTemp(cw'[v].messages) = CountTemp(cw[v].messages)]_vars

\* A view whose create lost the race has no conversation id; its form is
\* shown, text is typed, and a submit can arrive.
C19_SubmitWithoutConversation ==
  \E v \in ChatViews :
    /\ cw[v].mounted /\ ~cw[v].loading
    /\ cw[v].conversationIdRef = Null
    /\ ~AllBlank(cw[v].newMessage)
    /\ SumClock(Views) < MaxMsgs

\* C20: in an open view a placeholder entry is in the visible sequence only
\* while the write it stands for is in flight: with sending false there is
\* none, any that is there is the pending write's, and no placeholder id is the
\* id of a stored message.
C20_PlaceholderOnlyInFlight ==
  \A v \in Views :
    /\ (cw[v].mounted /\ ~cw[v].sending) => CountTemp(cw[v].messages) = 0
    /\ cw[v].mounted =>
         \A i \in 1..Len(cw[v].messages) :
           cw[v].messages[i].id[1] = "temp" =>
             /\ cw[v].send.state # "none"
             /\ cw[v].send.tempId = cw[v].messages[i].id
    /\ \A i \in 1..Len(cw[v].messages) : \A j \in 1..Len(messagesTbl) :
         cw[v].messages[i].id[1] = "temp" =>
           cw[v].messages[i].id # messagesTbl[j].id

\* A send has completed: the server record stands where the placeholder was.
C20_PlaceholderReplaced ==
  \E v \in ChatViews : \E s \in sentLog[v] :
    /\ cw[v].mounted /\ ~cw[v].sending
    /\ HasId(cw[v].messages, s.serverId)
    /\ ~HasId(cw[v].messages, s.tempId)

\* C21: a lookup that ends in not-found or in an error caches nothing: every
\* cache entry is a stored row of its identity, never a made-up profile; and a
\* session notification for an identity that is not cached issues a fetch.
C21_NotFoundNotCached ==
  /\ [](\A u \in DOMAIN profileCache :
          /\ u \in DOMAIN profilesTbl
          /\ profileCache[u].id = profilesTbl[u].id
          /\ profileCache[u].id # u)
  /\ [][(/\ authEvents # <<>> /\ authEvents' = Tail(authEvents)
          /\ effectActive' = effectActive
          /\ Head(authEvents).sess # Null
          /\ Head(authEvents).sess \notin DOMAIN profileCache)
        => \E t \in BagToSet(tasks') :
              /\ t.kind = "fetch" /\ t.uid = Head(authEvents).sess
              /\ CopiesIn(t, tasks') = CopiesIn(t, tasks) + 1]_vars

\* A lookup of identity 11 ended without a row (the made-up profile is
\* published, nothing is cached), the row exists by now, and a later lookup
\* has issued a new fetch. No sign-in was made, so the made-up profile is
\* updateUserState's.
C21_RefetchAfterNotFound ==
  /\ opCount = 0
  /\ profile.id = 11
  /\ 11 \notin DOMAIN profileCache
  /\ 11 \in DOMAIN profilesTbl
  /\ \E t \in BagToSet(tasks) : t.kind = "fetch" /\ t.uid = 11

\* C22: once an identity's profile is cached, the entry stays what it is for
\* as long as the cache is not cleared, whatever fetches complete afterwards.
C22_CachedEntryStays ==
  [][\A u \in DOMAIN profileCache :
       u \in DOMAIN profileCache' => profileCache'[u] = profileCache[u]]_vars

\* C23: the page a view shows once it has loaded is the most recent messages
\* of its conversation, up to the bound, in ascending created_at order (so the
\* newest stored message is its last entry).
C23_PageIsMostRecent ==
  \A v \in Views :
    (cw[v].mounted /\ cw[v].pc = "ready") =>
      LET all == OfConversation(messagesTbl, cw[v].conversationIdRef)
          n == IF Len(all) > PageLimit THEN PageLimit ELSE Len(all)
      IN  cw[v].messages = SubSeq(all, Len(all) - n + 1, Len(all))

\* C24: at most one session-change listener of the provider is active at any
\* time, and none is while the provider's effect is torn down.
C24_OneListener ==
  /\ Cardinality(listeners) <= 1
  /\ ~effectActive => listeners = {}

\* The effect was torn down and set up again: only the second run's listener
\* is active.
C24_Resubscribed ==
  /\ runs = 2
  /\ effectActive
  /\ listeners = {2}

\* C25: an open view that has finished initialising and has handled every
\* push it was sent shows every message the other party has committed to its
\* conversation.
C25_NoMessageMissed ==
  \A v \in Views :
    (cw[v].mounted /\ cw[v].pc = "ready" /\ inbox[v] = <<>>) =>
      \A i \in 1..Len(messagesTbl) :
        (messagesTbl[i].conversation_id = cw[v].conversationIdRef
           /\ messagesTbl[i].sender_id # cw[v].profileId)
        => HasId(cw[v].messages, messagesTbl[i].id)

\* C26: the acting participant a conversation view names in its lookup,
\* create and inserts is the id of a stored profile row.
C26_ActsAsProfileRow ==
  \A v \in Views :
    cw[v].profileId # Null =>
      \E u \in DOMAIN profilesTbl : profilesTbl[u].id = cw[v].profileId

\* C27: whenever the directory fetch has completed and no debounce timeout is
\* pending, the list shown is the cached directory filtered by the search text.
C27_ListMatchesSearch ==
  (dirFetch.state = "done" /\ ~debouncePending) =>
    users = FilterUsers(allUsersCache, search)

\* C28: the published identity and profile are a consistent pair: both null or
\* both set, and when set the profile belongs to the identity and carries the
\* same username and e-mail.
C28_UserProfileConsistent ==
  /\ (user = NoUser) <=> (profile = NoProfile)
  /\ user # NoUser =>
       /\ profile.user_id = user.id
       /\ profile.username = user.username
       /\ profile.email = user.email

\* The stored profile of identity 11 is published, and the user is named after
\* it rather than after the e-mail.
C28_NamedByProfile ==
  /\ user.id = 11
  /\ profile.id = RowId(11)
  /\ user.username = Username(11)

\* C29: once loading is false it is never true again, whatever sign-in,
\* sign-up, sign-out, notification, timeout or bootstrap step follows.
C29_LoadingMonotone ==
  [][loading = FALSE => loading' = FALSE]_vars

\* The subtree is shown after a sign-in and a sign-out have both run to their
\* end.
C29_ShownAfterSignOut ==
  /\ loading = FALSE
  /\ opCount = 2
  /\ epoch = 1
  /\ tasks = EmptyBag
  /\ authEvents = <<>>

====
